---- MODULE Spec2Model ----
(***************************************************************************)
(* Bulk image generator: the GeneratorPage orchestrator (handleGenerate,  *)
(* handleStop, ApiKeyManager), the App-level credential pool and the      *)
(* history store of services/apiService.ts.                               *)
(*                                                                         *)
(* handleGenerate is an async function.  Each action below is one         *)
(* synchronous segment of it: from its start or from the resumption of an *)
(* await (the gateway call, the 2 s cool-down) up to the next await or to *)
(* its end.  The JavaScript event loop runs such a segment atomically.    *)
(*                                                                         *)
(* handleGenerate is built by useCallback over the props of one render:   *)
(* the `apiKeys` it filters and the `updateApiKeyStatus` it calls are the *)
(* values of the render in which the user clicked Generate.  They are the *)
(* variable runKeys; the live pool (App state) is the variable apiKeys.   *)
(***************************************************************************)
EXTENDS Integers, Sequences, FiniteSets, TLC

\* ------------------------------------------------------------------ bounds
MaxKeys == 2        \* distinct credential values the user can type
MaxLines == 2       \* lines of the prompt text area
MaxImages == 1      \* largest number of images a gateway call returns
MaxCalls == 4       \* gateway calls that resolve in one behaviour
MaxSessions == 3    \* session ids handed to the history store on its own
MaxTicks == 3       \* upserts of the history store on its own

\* --------------------------------------------------------------- constants
Active == "Active"
RateLimited == "Rate Limited"

KeyIds == 1..MaxKeys

\* the j-th prompt the user types, and a blank line of the text area
PromptLine(j) == <<j>>
BlankLine == <<>>

\* the text area with n prompts typed, a blank line after each
TextOf(n) == [j \in 1..(2 * n) |-> IF j % 2 = 1 THEN PromptLine((j + 1) \div 2) ELSE BlankLine]

\* status messages of GeneratorPage (the interpolated parts are dropped)
MsgNone == "none"
MsgStarting == "Starting generation..."
MsgProcessing == "Processing prompt"
MsgTrying == "Trying key"
MsgCooling == "Key rate limited. Cooling down for 2s..."
MsgFailedNext == "Key failed. Trying next key."
MsgStopped == "Generation stopped by user."
MsgAllProcessed == "All prompts processed."
MsgStopping == "Stopping generation..."

\* synthetic error texts of handleGenerate
ErrAllRateLimited == <<"All available keys are rate-limited.">>
ErrAllFailed == <<"All active API keys failed or are rate limited.">>

\* ------------------------------------------------------- gateway failures
\* A failure thrown by generateImages: the fields isRateLimitError reads
\* (status, code; a numeric code is written as its digits) and the message,
\* a sequence of the phrases it contains.
ErrBlocked == [status |-> "INVALID_ARGUMENT", code |-> "400", message |-> <<"prompt", "blocked">>]
ErrQuota == [status |-> "RESOURCE_EXHAUSTED", code |-> "429", message |-> <<"quota">>]
ErrBlockedQuota == [status |-> "RESOURCE_EXHAUSTED", code |-> "429", message |-> <<"prompt", "blocked">>]
ErrInvalidKey == [status |-> "UNAUTHENTICATED", code |-> "401", message |-> <<"invalid", "key">>]

GatewayErrors == {ErrBlocked, ErrQuota, ErrBlockedQuota, ErrInvalidKey}

Includes(message, phrase) == \E j \in 1..Len(message) : message[j] = phrase

getErrorMessage(error) == error.message

isRateLimitError(error) ==
    \/ error.status = "RESOURCE_EXHAUSTED"
    \/ error.code = "429"
    \/ error.code = "rate_limit_exceeded"
    \/ Includes(getErrorMessage(error), "quota")
    \/ Includes(getErrorMessage(error), "rate limit")
    \/ Includes(getErrorMessage(error), "resource exhausted")

isPromptError(error) ==
    \/ Includes(getErrorMessage(error), "prompt")
    \/ Includes(getErrorMessage(error), "safety")

\* the n image payloads of a successful call
Images(n) == [j \in 1..n |-> "base64"]

\* --------------------------------------------------- the gateway function
\* AIService, and the value of a service argument that was not passed
Gemini == "Gemini"
OpenAI == "OpenAI"
Services == {Gemini, OpenAI, "undefined"}

\* credentials as generateImages tests them: empty, blank, or a secret
ApiKeyTexts == {"", " ", "secret"}

\* the largest count the slider of GeneratorPage asks for
MaxNumImages == 4

\* What the provider does with the request: the fetch fails (network), it
\* answers with an error body, with a success body that has no image list,
\* or with a success body listing count images.
ProviderAnswers ==
    {[kind |-> "network", count |-> 0], [kind |-> "error", count |-> 0],
     [kind |-> "malformed", count |-> 0]}
        \cup {[kind |-> "ok", count |-> n] : n \in 0..MaxNumImages}

Returned(images) == [outcome |-> "returned", images |-> images, error |-> "none"]
Thrown(error) == [outcome |-> "thrown", images |-> <<>>, error |-> error]

ErrNoKey == "A valid API key must be provided."
ErrUnsupported == "Unsupported AI service"
ErrFetch == "fetch failed"
ErrFormat == "Invalid response format"
ErrNetwork == "Failed to call the API. Please check your network connection or console for details."
ErrBody == "error body of the provider"

\* generateImagesGemini, lines 72-106
generateImagesGemini(numImages, answer) ==
    IF answer.kind = "network" THEN Thrown(ErrFetch)
    ELSE IF answer.kind = "error" THEN Thrown(ErrBody)
    ELSE IF answer.kind = "malformed" THEN Thrown(ErrFormat)
    ELSE Returned(Images(answer.count))

\* a generateImagesOpenAI that hands on every image of the answer
generateImagesOpenAIAll(answer) ==
    IF answer.kind = "network" THEN Thrown(ErrFetch)
    ELSE IF answer.kind = "error" THEN Thrown(ErrBody)
    ELSE IF answer.kind = "malformed" THEN Thrown(ErrFormat)
    ELSE Returned(Images(answer.count))

\* generateImagesOpenAI, lines 112-144: the first image of the answer
generateImagesOpenAI(answer) ==
    IF answer.kind = "network" THEN Thrown(ErrFetch)
    ELSE IF answer.kind = "error" THEN Thrown(ErrBody)
    ELSE IF answer.kind = "malformed" \/ answer.count = 0 THEN Thrown(ErrFormat)
    ELSE Returned(Images(1))

\* lines 163-169: an Error without an error field is thrown again as a
\* network failure, anything else (the error body) as it is
Rethrow(result) ==
    IF result.outcome = "thrown" /\ result.error # ErrBody THEN Thrown(ErrNetwork) ELSE result

\* generateImages, lines 149-171: what the call gives, and whether a
\* provider was sent a request
generateImages(apiKey, numImages, service, answer) ==
    IF apiKey \in {"", " "}
    THEN [result |-> Thrown(ErrNoKey), contacted |-> FALSE]
    ELSE IF service = Gemini
    THEN [result |-> Rethrow(generateImagesGemini(numImages, answer)), contacted |-> TRUE]
    ELSE IF service = OpenAI
    THEN [result |-> Rethrow(generateImagesOpenAI(answer)), contacted |-> TRUE]
    ELSE [result |-> Rethrow(Thrown(ErrUnsupported)), contacted |-> FALSE]

\* no call of the gateway on its own was made
NoCall == [made |-> FALSE]

\* ------------------------------------------------------------------- state
VARIABLES
    apiKeys,          \* App state: the credential pool, a sequence of [key, status]
    storedHistory,    \* localStorage[HISTORY_KEY]: sessions, newest first
    prompts,          \* GeneratorPage state: the lines of the text area
    isLoading,        \* GeneratorPage state
    statusMessage,    \* GeneratorPage state
    results,          \* GeneratorPage state: the live view of the outcomes
    currentKeyIndex,  \* GeneratorPage state: rotating index kept between runs
    stopRequest,      \* GeneratorPage ref: the cancellation flag
    pc,               \* where handleGenerate is suspended: idle, calling, cooldown
    runKeys,          \* the `apiKeys` captured by the running handleGenerate
    promptsToProcess, \* local of handleGenerate
    finalResults,     \* local of handleGenerate
    keyIdx,           \* local of handleGenerate
    sessionId,        \* local of handleGenerate
    i,                \* local of handleGenerate: index of the current prompt
    attempts,         \* local of handleGenerate
    clock,            \* the wall clock read by new Date(), in runs started
    calls,            \* gateway calls resolved so far
    degradedInPrompt, \* history: a credential went Active -> Rate Limited
                      \* in the pool while the current prompt was processed
    gatewayCall,      \* the gateway driven on its own: the last call of
                      \* generateImages, its arguments and what it gave
    promptLog         \* history: the credentials Active in the pool when the
                      \* current prompt started, and those called for it

vars == <<apiKeys, storedHistory, prompts, isLoading, statusMessage, results,
          currentKeyIndex, stopRequest, pc, runKeys, promptsToProcess,
          finalResults, keyIdx, sessionId, i, attempts, clock, calls, degradedInPrompt, gatewayCall,
                   promptLog>>

\* ------------------------------------------------------------ the pool
ActiveKeys(keys) == SelectSeq(keys, LAMBDA k : k.status = Active)

HasKey(keys, key) == \E j \in 1..Len(keys) : keys[j].key = key

StatusOf(keys, key) == keys[CHOOSE j \in 1..Len(keys) : keys[j].key = key].status

\* App.updateApiKeyStatus, run in a render whose pool was keys: the new pool
updateApiKeyStatus(keys, key, status) ==
    [j \in 1..Len(keys) |-> IF keys[j].key = key
                              THEN [keys[j] EXCEPT !.status = status]
                              ELSE keys[j]]

\* an addApiKey without the check of line 186
addApiKeyUnchecked(keys, key) == Append(keys, [key |-> key, status |-> Active])

\* App.addApiKey
addApiKey(keys, key) ==
    IF ~HasKey(keys, key) THEN Append(keys, [key |-> key, status |-> Active]) ELSE keys

removeApiKey(keys, key) == SelectSeq(keys, LAMBDA k : k.key # key)

\* --------------------------------------------------------- the history
HasImages(outcomes) == \E j \in 1..Len(outcomes) : Len(outcomes[j].images) > 0

findIndex(history, id) ==
    IF \E j \in 1..Len(history) : history[j].id = id
    THEN CHOOSE j \in 1..Len(history) :
            /\ history[j].id = id
            /\ \A h \in 1..(j - 1) : history[h].id # id
    ELSE 0

\* an updateHistory that always inserts a new session at the head
updateHistoryInserting(history, id, newResults, now) ==
    <<[id |-> id, date |-> now, results |-> newResults]>> \o history

\* an updateHistory that moves the session it updates to the head, re-dated
updateHistoryMovingToHead(history, id, newResults, now) ==
    <<[id |-> id, date |-> now, results |-> newResults]>>
        \o SelectSeq(history, LAMBDA item : item.id # id)

\* apiService.updateHistory: the history it saves, read at time now
updateHistory(history, id, newResults, now) ==
    LET itemIndex == findIndex(history, id) IN
    IF itemIndex > 0
    THEN [history EXCEPT ![itemIndex].results = newResults]
    ELSE <<[id |-> id, date |-> now, results |-> newResults]>> \o history

\* App.handleGenerationUpdate
handleGenerationUpdate(history, id, newResults, now) ==
    IF HasImages(newResults) THEN updateHistory(history, id, newResults, now) ELSE history

\* a deleteHistoryItem that drops the newest session, whatever the id
deleteHistoryItemNewest(history, id) == IF history = <<>> THEN history ELSE Tail(history)

\* apiService.deleteHistoryItem: the history it saves
deleteHistoryItem(history, id) == SelectSeq(history, LAMBDA item : item.id # id)

\* apiService.clearHistory: what is stored after removeItem
clearHistory(history) == <<>>

\* ------------------------------------------------- handleGenerate, by parts
\* An outcome (GenerationResult); error <<>> stands for an absent error.
Outcome(prompt, images, error) == [prompt |-> prompt, images |-> images, error |-> error]

\* prompts.trim().split('\\n').filter(p => p.trim() !== '')
SplitPrompts(text) == SelectSeq(text, LAMBDA line : line # BlankLine)

\* !prompts.trim()
IsBlankText(text) == \A j \in 1..Len(text) : text[j] = BlankLine

\* the retry loop without the check of line 235
StopBeforeAttemptUnchecked(stop) == FALSE

\* line 235: the flag as the retry loop reads it before an attempt
StopBeforeAttempt(stop) == stop

\* the run without the check of line 279
StopAfterAttemptsUnchecked(stop) == FALSE

\* line 279: the flag as read after the retry loop
StopAfterAttempts(stop) == stop

\* Resolve without the fallback of lines 281-283
ResolveNoFallback(success, promptResult, prompt) == promptResult

\* lines 281-283: the outcome of a prompt that left the retry loop
Resolve(success, promptResult, prompt) ==
    IF ~success /\ promptResult = <<>>
    THEN <<Outcome(prompt, <<>>, ErrAllFailed)>>
    ELSE promptResult

\* a run that hands every outcome to onGenerationUpdate
NeedsFlushAlways(outcome) == TRUE

\* line 288: whether an outcome is handed to onGenerationUpdate
NeedsFlush(outcome) == Len(outcome.images) > 0 \/ outcome.error # <<>>

\* lines 263 and 268: the pool after the run marks key, and the history flag
MarkRateLimited(m, c, key) ==
    LET pool == updateApiKeyStatus(c.keys, key, RateLimited) IN
    [m EXCEPT !.apiKeys = pool,
              !.degradedInPrompt =
                  \/ m.degradedInPrompt
                  \/ \E k \in KeyIds :
                        /\ HasKey(m.apiKeys, k) /\ StatusOf(m.apiKeys, k) = Active
                        /\ HasKey(pool, k) /\ StatusOf(pool, k) = RateLimited]

\* the history of a prompt: no prompt is being processed
NoPrompt == [activeAtStart |-> {}, attempted |-> <<>>]

\* the history of a prompt that starts while the pool is keys
PromptStarts(keys) ==
    [activeAtStart |-> {keys[j].key : j \in {n \in 1..Len(keys) : keys[n].status = Active}},
     attempted |-> <<>>]

\* the history of a prompt once the credential key is called for it
Attempted(log, key) == [log EXCEPT !.attempted = Append(log.attempted, key)]

\* lines 294-297, and the return: the locals i, attempts, keyIdx and
\* finalResults are gone (results keeps the outcomes for the view)
Finish(m, c) ==
    [m EXCEPT !.statusMessage = IF ~c.stop THEN MsgAllProcessed ELSE m.statusMessage,
              !.isLoading = FALSE,
              !.pc = "idle",
              !.i = 0, !.attempts = 0, !.keyIdx = 0, !.finalResults = <<>>,
              !.degradedInPrompt = FALSE,
              !.promptLog = NoPrompt]

RECURSIVE ForLoop(_, _), WhileLoop(_, _), AfterWhile(_, _)

\* a run that gives up the batch at the first outcome with an error
RecordAborting(m, c, promptResult) ==
    IF promptResult # <<>> /\ promptResult[1].error # <<>>
    THEN Finish([m EXCEPT !.results = Append(m.results, promptResult[1])], c)
    ELSE IF promptResult # <<>>
    THEN LET all == Append(m.finalResults, promptResult[1]) IN
         ForLoop([m EXCEPT !.finalResults = all,
                           !.results = Append(m.results, promptResult[1]),
                           !.storedHistory =
                               handleGenerationUpdate(m.storedHistory, c.sid, all, c.now),
                           !.i = m.i + 1], c)
    ELSE ForLoop([m EXCEPT !.i = m.i + 1], c)

\* a run that puts every new outcome before the ones recorded so far
RecordPrepending(m, c, promptResult) ==
    IF promptResult # <<>>
    THEN LET all == <<promptResult[1]>> \o m.finalResults IN
         ForLoop([m EXCEPT !.finalResults = all,
                           !.results = <<promptResult[1]>> \o m.results,
                           !.storedHistory =
                               IF NeedsFlush(promptResult[1])
                               THEN handleGenerationUpdate(m.storedHistory, c.sid, all, c.now)
                               ELSE m.storedHistory,
                           !.i = m.i + 1], c)
    ELSE ForLoop([m EXCEPT !.i = m.i + 1], c)

\* a run that goes on to the next prompt without recording a failed one
RecordSkippingFailures(m, c, promptResult) ==
    IF promptResult # <<>> /\ promptResult[1].error = <<>>
    THEN LET all == Append(m.finalResults, promptResult[1]) IN
         ForLoop([m EXCEPT !.finalResults = all,
                           !.results = Append(m.results, promptResult[1]),
                           !.storedHistory =
                               IF NeedsFlush(promptResult[1])
                               THEN handleGenerationUpdate(m.storedHistory, c.sid, all, c.now)
                               ELSE m.storedHistory,
                           !.i = m.i + 1], c)
    ELSE ForLoop([m EXCEPT !.i = m.i + 1], c)

\* a run that hands only the newest outcome to onGenerationUpdate
RecordFlushingLast(m, c, promptResult) ==
    IF promptResult # <<>>
    THEN ForLoop([m EXCEPT !.finalResults = Append(m.finalResults, promptResult[1]),
                           !.results = Append(m.results, promptResult[1]),
                           !.storedHistory =
                               IF NeedsFlush(promptResult[1])
                               THEN handleGenerationUpdate(m.storedHistory, c.sid,
                                                           <<promptResult[1]>>, c.now)
                               ELSE m.storedHistory,
                           !.i = m.i + 1], c)
    ELSE ForLoop([m EXCEPT !.i = m.i + 1], c)

\* lines 285-292, then the next iteration of the for loop
Record(m, c, promptResult) ==
    IF promptResult # <<>>
    THEN LET outcome == promptResult[1]
             all == Append(m.finalResults, outcome) IN
         ForLoop([m EXCEPT !.finalResults = all,
                           !.results = Append(m.results, outcome),
                           !.storedHistory =
                               IF NeedsFlush(outcome)
                               THEN handleGenerationUpdate(m.storedHistory, c.sid, all, c.now)
                               ELSE m.storedHistory,
                           !.i = m.i + 1], c)
    ELSE ForLoop([m EXCEPT !.i = m.i + 1], c)

\* lines 279-292
AfterWhile(m, c) ==
    IF StopAfterAttempts(c.stop)
    THEN Finish(m, c)
    ELSE Record(m, c, Resolve(m.success, m.promptResult, c.prompts[m.i + 1]))

\* a retry loop that allows one attempt more than there are credentials
WhileLoopOneMore(m, c) ==
    IF ~m.success /\ m.attempts <= Len(ActiveKeys(c.keys))
    THEN IF StopBeforeAttempt(c.stop)
         THEN AfterWhile(m, c)
         ELSE [m EXCEPT !.keyIdx = m.keyIdx % Len(ActiveKeys(c.keys)),
                        !.statusMessage = MsgTrying,
                        !.pc = "calling",
                        !.promptLog =
                            Attempted(m.promptLog,
                                      ActiveKeys(c.keys)[(m.keyIdx % Len(ActiveKeys(c.keys))) + 1].key)]
    ELSE AfterWhile(m, c)

\* lines 234-245: the head of the retry loop, up to the gateway call
WhileLoop(m, c) ==
    IF ~m.success /\ m.attempts < Len(ActiveKeys(c.keys))
    THEN IF StopBeforeAttempt(c.stop)
         THEN AfterWhile(m, c)
         ELSE LET currentActiveKeys == ActiveKeys(c.keys) IN
              IF Len(currentActiveKeys) = 0
              THEN AfterWhile([m EXCEPT !.promptResult =
                                  <<Outcome(c.prompts[m.i + 1], <<>>, ErrAllRateLimited)>>], c)
              ELSE [m EXCEPT !.keyIdx = m.keyIdx % Len(currentActiveKeys),
                             !.statusMessage = MsgTrying,
                             !.pc = "calling",
                             !.promptLog =
                                 Attempted(m.promptLog,
                                           currentActiveKeys[(m.keyIdx % Len(currentActiveKeys)) + 1].key)]
    ELSE AfterWhile(m, c)

\* lines 219-232: the head of the for loop
ForLoop(m, c) ==
    IF m.i < Len(c.prompts)
    THEN IF c.stop
         THEN Finish([m EXCEPT !.statusMessage = MsgStopped], c)
         ELSE WhileLoop([m EXCEPT !.promptResult = <<>>,
                                  !.success = FALSE,
                                  !.attempts = 0,
                                  !.degradedInPrompt = FALSE,
                                  !.promptLog = PromptStarts(m.apiKeys),
                                  !.statusMessage = MsgProcessing], c)
    ELSE Finish(m, c)

\* a retry that does not move to the next credential
NextAttemptSameKey(m, c) ==
    WhileLoop([m EXCEPT !.attempts = m.attempts + 1], c)

\* lines 274-277, then the loop again
NextAttempt(m, c) ==
    WhileLoop([m EXCEPT !.attempts = m.attempts + 1, !.keyIdx = m.keyIdx + 1], c)

\* the credential of the call in flight (line 244)
CurrentKey(keys, idx) == ActiveKeys(keys)[idx + 1].key

\* a success that also marks the credential it used
OnSuccessMarking(m, c, images) ==
    WhileLoop([MarkRateLimited(m, c, CurrentKey(c.keys, m.keyIdx)) EXCEPT
                        !.promptResult = <<Outcome(c.prompts[m.i + 1], images, <<>>)>>,
                        !.success = TRUE,
                        !.currentKeyIndex = m.keyIdx], c)

\* a success whose empty image sequence is recorded as a failure
OnSuccessEmptyAsError(m, c, images) ==
    WhileLoop([m EXCEPT !.promptResult =
                            <<Outcome(c.prompts[m.i + 1], images,
                                      IF images = <<>> THEN ErrAllFailed ELSE <<>>)>>,
                        !.success = TRUE,
                        !.currentKeyIndex = m.keyIdx], c)

\* lines 249-251: the gateway call returned images
OnSuccess(m, c, images) ==
    WhileLoop([m EXCEPT !.promptResult = <<Outcome(c.prompts[m.i + 1], images, <<>>)>>,
                        !.success = TRUE,
                        !.currentKeyIndex = m.keyIdx], c)

\* a prompt rejection handled after the credential has been marked
OnPromptErrorMarking(m, c, error) ==
    AfterWhile([MarkRateLimited(m, c, CurrentKey(c.keys, m.keyIdx)) EXCEPT !.promptResult =
                   <<Outcome(c.prompts[m.i + 1], <<>>, getErrorMessage(error))>>], c)

\* lines 256-260: the failure is a prompt rejection
OnPromptError(m, c, error) ==
    AfterWhile([m EXCEPT !.promptResult =
                   <<Outcome(c.prompts[m.i + 1], <<>>, getErrorMessage(error))>>], c)

\* a rate limit that waits whether or not Stop was pressed
OnRateLimitAlwaysWaiting(m, c, error) ==
    [MarkRateLimited(m, c, CurrentKey(c.keys, m.keyIdx))
         EXCEPT !.statusMessage = MsgCooling, !.pc = "cooldown"]

\* lines 262-265 and 274-277: the failure is a rate limit
OnRateLimit(m, c, error) ==
    LET marked == [MarkRateLimited(m, c, CurrentKey(c.keys, m.keyIdx))
                       EXCEPT !.statusMessage = MsgCooling] IN
    IF ~c.stop
    THEN [marked EXCEPT !.pc = "cooldown"]
    ELSE NextAttempt(marked, c)

\* an Other failure that leaves the credential alone once Stop is pressed
OnOtherErrorUnmarkedOnStop(m, c, error) ==
    NextAttempt([(IF c.stop THEN m ELSE MarkRateLimited(m, c, CurrentKey(c.keys, m.keyIdx)))
                     EXCEPT !.statusMessage = MsgFailedNext], c)

\* lines 266-277: any other failure
OnOtherError(m, c, error) ==
    NextAttempt([MarkRateLimited(m, c, CurrentKey(c.keys, m.keyIdx))
                     EXCEPT !.statusMessage = MsgFailedNext], c)

\* a catch block that tests for a rate limit before the prompt rejection
OnFailureRateLimitFirst(m, c, error) ==
    IF isRateLimitError(error) THEN OnRateLimit(m, c, error)
    ELSE IF isPromptError(error) THEN OnPromptError(m, c, error)
    ELSE OnOtherError(m, c, error)

\* lines 252-277: the gateway call threw error
OnFailure(m, c, error) ==
    IF isPromptError(error) THEN OnPromptError(m, c, error)
    ELSE IF isRateLimitError(error) THEN OnRateLimit(m, c, error)
    ELSE OnOtherError(m, c, error)

\* ----------------------------------------------------------------- actions
\* what a segment of handleGenerate reads and writes, as one record
Machine ==
    [i |-> i, attempts |-> attempts, keyIdx |-> keyIdx, success |-> FALSE,
     promptResult |-> <<>>, finalResults |-> finalResults, results |-> results,
     apiKeys |-> apiKeys, storedHistory |-> storedHistory,
     statusMessage |-> statusMessage, pc |-> pc,
     currentKeyIndex |-> currentKeyIndex, isLoading |-> isLoading,
     degradedInPrompt |-> degradedInPrompt, promptLog |-> promptLog]

\* what stays fixed during a segment of the running handleGenerate
Context ==
    [stop |-> stopRequest, keys |-> runKeys, prompts |-> promptsToProcess,
     sid |-> sessionId, now |-> clock]

\* the closure of a finished run is gone with it
Apply(m, c) ==
    /\ runKeys' = IF m.pc = "idle" THEN <<>> ELSE c.keys
    /\ promptsToProcess' = IF m.pc = "idle" THEN <<>> ELSE c.prompts
    /\ sessionId' = c.sid
    /\ i' = m.i
    /\ attempts' = m.attempts
    /\ keyIdx' = m.keyIdx
    /\ finalResults' = m.finalResults
    /\ results' = m.results
    /\ apiKeys' = m.apiKeys
    /\ storedHistory' = m.storedHistory
    /\ statusMessage' = m.statusMessage
    /\ pc' = m.pc
    /\ currentKeyIndex' = m.currentKeyIndex
    /\ isLoading' = m.isLoading
    /\ degradedInPrompt' = m.degradedInPrompt
    /\ promptLog' = m.promptLog

\* a pool as App's useEffect loads it from localStorage (lines 163-178):
\* n distinct credentials, each Active or Rate Limited
StoredPools ==
    UNION {{[j \in 1..n |-> [key |-> j, status |-> st[j]]] :
               st \in [1..n -> {Active, RateLimited}]} : n \in 0..MaxKeys}

InitWith(pools) ==
    /\ apiKeys \in pools
    /\ storedHistory = <<>>
    /\ prompts \in {TextOf(n) : n \in 0..MaxLines} \cup {<<BlankLine>>}
    /\ isLoading = FALSE
    /\ statusMessage = MsgNone
    /\ results = <<>>
    /\ currentKeyIndex = 0
    /\ stopRequest = FALSE
    /\ pc = "idle"
    /\ runKeys = <<>>
    /\ promptsToProcess = <<>>
    /\ finalResults = <<>>
    /\ keyIdx = 0
    /\ sessionId = 0
    /\ i = 0
    /\ attempts = 0
    /\ clock = 0
    /\ calls = 0
    /\ degradedInPrompt = FALSE
    /\ gatewayCall = NoCall
    /\ promptLog = NoPrompt

Init == InitWith(StoredPools)

\* a handleGenerate that starts whatever the text and the pool are
CanStartUnchecked(text, keys) == TRUE

\* lines 199-207: neither early return is taken
CanStart(text, keys) == ~IsBlankText(text) /\ Len(ActiveKeys(keys)) > 0

\* a handleGenerate that names every session alike
sessionIdOfFixed(now) == 1

\* line 217: new Date().toISOString(), the session id of a run started at now
sessionIdOf(now) == now

\* a handleGenerate that leaves the stop flag as the last run left it
KeepStopRequest(flag) == flag

\* line 210: stopRequest.current = false
ClearStopRequest(flag) == FALSE

\* handleGenerate, lines 198-248: from the click to the first gateway call
HandleGenerate ==
    /\ ~isLoading
    /\ calls < MaxCalls
    /\ CanStart(prompts, apiKeys)
    /\ LET c == [stop |-> ClearStopRequest(stopRequest), keys |-> apiKeys,
                 prompts |-> SplitPrompts(prompts),
                 sid |-> sessionIdOf(clock + 1), now |-> clock + 1]
           m == [Machine EXCEPT !.isLoading = TRUE,
                                !.results = <<>>,
                                !.statusMessage = MsgStarting,
                                !.finalResults = <<>>,
                                !.keyIdx = currentKeyIndex,
                                !.i = 0]
       IN /\ Apply(ForLoop(m, c), c)
          /\ stopRequest' = c.stop
          /\ clock' = c.now
    /\ UNCHANGED <<prompts, calls, gatewayCall>>

\* handleGenerate, lines 199-207: the alert and the early return
HandleGenerateRefused ==
    /\ ~isLoading
    /\ ~CanStart(prompts, apiKeys)
    /\ UNCHANGED vars

\* the gateway call in flight returns images
CallReturns ==
    /\ pc = "calling"
    /\ calls' = calls + 1
    /\ \E n \in 0..MaxImages : Apply(OnSuccess(Machine, Context, Images(n)), Context)
    /\ UNCHANGED <<prompts, stopRequest, clock, gatewayCall>>

\* the gateway call in flight throws
CallThrows ==
    /\ pc = "calling"
    /\ calls' = calls + 1
    /\ \E error \in GatewayErrors : Apply(OnFailure(Machine, Context, error), Context)
    /\ UNCHANGED <<prompts, stopRequest, clock, gatewayCall>>

\* the same, while the behaviour has calls left
GatewaySuccess == calls < MaxCalls /\ CallReturns

GatewayFailure == calls < MaxCalls /\ CallThrows

\* the 2 s timer of line 265 fires
CooldownDone ==
    /\ pc = "cooldown"
    /\ Apply(NextAttempt(Machine, Context), Context)
    /\ UNCHANGED <<prompts, stopRequest, clock, calls, gatewayCall>>

\* handleStop: the Stop button is rendered while isLoading
HandleStop ==
    /\ isLoading
    /\ stopRequest' = TRUE
    /\ statusMessage' = MsgStopping
    /\ UNCHANGED <<apiKeys, storedHistory, prompts, isLoading, results, currentKeyIndex,
                   pc, runKeys, promptsToProcess, finalResults, keyIdx, sessionId, i,
                   attempts, clock, calls, degradedInPrompt, gatewayCall,
                   promptLog>>

\* ApiKeyManager.handleAddKey -> App.addApiKey
AddApiKey ==
    /\ \E key \in KeyIds : apiKeys' = addApiKey(apiKeys, key)
    /\ UNCHANGED <<storedHistory, prompts, isLoading, statusMessage, results,
                   currentKeyIndex, stopRequest, pc, runKeys, promptsToProcess,
                   finalResults, keyIdx, sessionId, i, attempts, clock, calls, degradedInPrompt, gatewayCall,
                   promptLog>>

\* the delete button of a key -> App.removeApiKey
RemoveApiKey ==
    /\ \E j \in 1..Len(apiKeys) : apiKeys' = removeApiKey(apiKeys, apiKeys[j].key)
    /\ UNCHANGED <<storedHistory, prompts, isLoading, statusMessage, results,
                   currentKeyIndex, stopRequest, pc, runKeys, promptsToProcess,
                   finalResults, keyIdx, sessionId, i, attempts, clock, calls, degradedInPrompt, gatewayCall,
                   promptLog>>

\* ApiKeyManager.handleResetStatus: every call of the forEach runs
\* updateApiKeyStatus of the same render, over the same pool `keys`; each
\* setApiKeys replaces the one before, so the pool of the last call stays.
RECURSIVE ResetLoop(_, _, _)
ResetLoop(keys, j, pool) ==
    IF j > Len(keys) THEN pool
    ELSE ResetLoop(keys, j + 1,
                   IF keys[j].status = RateLimited
                   THEN updateApiKeyStatus(keys, keys[j].key, Active)
                   ELSE pool)

handleResetStatus(keys) == ResetLoop(keys, 1, keys)

HandleResetStatus ==
    /\ \E j \in 1..Len(apiKeys) : apiKeys[j].status = RateLimited
    /\ apiKeys' = handleResetStatus(apiKeys)
    /\ UNCHANGED <<storedHistory, prompts, isLoading, statusMessage, results,
                   currentKeyIndex, stopRequest, pc, runKeys, promptsToProcess,
                   finalResults, keyIdx, sessionId, i, attempts, clock, calls, degradedInPrompt, gatewayCall,
                   promptLog>>

\* App.handleDeleteHistoryItem
HandleDeleteHistoryItem ==
    /\ \E j \in 1..Len(storedHistory) :
          storedHistory' = deleteHistoryItem(storedHistory, storedHistory[j].id)
    /\ UNCHANGED <<apiKeys, prompts, isLoading, statusMessage, results,
                   currentKeyIndex, stopRequest, pc, runKeys, promptsToProcess,
                   finalResults, keyIdx, sessionId, i, attempts, clock, calls, degradedInPrompt, gatewayCall,
                   promptLog>>

\* App.handleClearHistory
HandleClearHistory ==
    /\ Len(storedHistory) > 0
    /\ storedHistory' = clearHistory(storedHistory)
    /\ UNCHANGED <<apiKeys, prompts, isLoading, statusMessage, results,
                   currentKeyIndex, stopRequest, pc, runKeys, promptsToProcess,
                   finalResults, keyIdx, sessionId, i, attempts, clock, calls, degradedInPrompt, gatewayCall,
                   promptLog>>

\* the orchestrator, the Stop button and the reset of the pool
Next ==
    \/ HandleGenerate
    \/ HandleGenerateRefused
    \/ GatewaySuccess
    \/ GatewayFailure
    \/ CooldownDone
    \/ HandleStop
    \/ HandleResetStatus

Spec == Init /\ [][Next]_vars

\* the same, with the user deleting sessions of the history at any time
NextHistoryEdits ==
    \/ Next
    \/ HandleDeleteHistoryItem
    \/ HandleClearHistory

SpecHistoryEdits == Init /\ [][NextHistoryEdits]_vars

\* the same, with the user editing the pool and the history at any time
NextUser ==
    \/ Next
    \/ AddApiKey
    \/ RemoveApiKey
    \/ HandleDeleteHistoryItem
    \/ HandleClearHistory

SpecUser == Init /\ [][NextUser]_vars

\* --------------------------------------------------------------- one run
\* The first run of a behaviour, every gateway call of it resolving in the
\* end and every cool-down timer firing.
HandleGenerateFirst == clock = 0 /\ HandleGenerate

NextOneRun ==
    \/ HandleGenerateFirst
    \/ HandleGenerateRefused
    \/ CallReturns
    \/ CallThrows
    \/ CooldownDone
    \/ HandleStop
    \/ HandleResetStatus

SpecOneRun ==
    /\ Init
    /\ [][NextOneRun]_vars
    /\ WF_vars(CallReturns \/ CallThrows)
    /\ WF_vars(CooldownDone)

\* ------------------------------------------------- storage writes that fail
\* saveHistory (apiService.ts 213-219) catches a localStorage.setItem that
\* throws: the stored history stays as it was and the caller goes on.
SaveFails(m, history) == [m EXCEPT !.storedHistory = history]

\* the call in flight returns images and the save of the session fails
GatewaySuccessSaveFails ==
    /\ pc = "calling"
    /\ calls < MaxCalls
    /\ calls' = calls + 1
    /\ \E n \in 0..MaxImages :
          LET m == OnSuccess(Machine, Context, Images(n)) IN
          /\ m.storedHistory # storedHistory
          /\ Apply(SaveFails(m, storedHistory), Context)
    /\ UNCHANGED <<prompts, stopRequest, clock, gatewayCall>>

\* the call in flight throws and the save of the session fails
GatewayFailureSaveFails ==
    /\ pc = "calling"
    /\ calls < MaxCalls
    /\ calls' = calls + 1
    /\ \E error \in GatewayErrors :
          LET m == OnFailure(Machine, Context, error) IN
          /\ m.storedHistory # storedHistory
          /\ Apply(SaveFails(m, storedHistory), Context)
    /\ UNCHANGED <<prompts, stopRequest, clock, gatewayCall>>

\* the call in flight throws a failure that marks the credential, and the
\* localStorage.setItem of App.updateApiKeys (App.tsx 182, outside any try)
\* throws after setApiKeys: the exception leaves the catch block of lines
\* 252-277 and ends handleGenerate before line 297.
KeySaveThrows ==
    /\ pc = "calling"
    /\ calls < MaxCalls
    /\ calls' = calls + 1
    /\ \E error \in GatewayErrors :
          /\ ~isPromptError(error)
          /\ Apply([MarkRateLimited(Machine, Context, CurrentKey(runKeys, keyIdx))
                        EXCEPT !.pc = "thrown"], Context)
    /\ UNCHANGED <<prompts, stopRequest, clock, gatewayCall>>

\* the orchestrator with storage writes that may fail
NextStorage ==
    \/ Next
    \/ GatewaySuccessSaveFails
    \/ GatewayFailureSaveFails
    \/ KeySaveThrows

SpecStorage == Init /\ [][NextStorage]_vars

\* ------------------------------------------------ the history store alone
\* The store of apiService.ts driven call by call: updateHistory with any
\* session id and outcome list, deleteHistoryItem, clearHistory.  The clock
\* ticks at every upsert (new Date() of line 234).
SessionIds == 1..MaxSessions

OutcomeLists ==
    {<<Outcome(PromptLine(1), Images(1), <<>>)>>,
     <<Outcome(PromptLine(1), <<>>, ErrAllFailed)>>,
     <<Outcome(PromptLine(1), Images(1), <<>>), Outcome(PromptLine(2), <<>>, ErrAllFailed)>>}

UpdateHistory ==
    /\ clock < MaxTicks
    /\ clock' = clock + 1
    /\ \E id \in SessionIds, newResults \in OutcomeLists :
          storedHistory' = updateHistory(storedHistory, id, newResults, clock + 1)
    /\ UNCHANGED <<apiKeys, prompts, isLoading, statusMessage, results,
                   currentKeyIndex, stopRequest, pc, runKeys, promptsToProcess,
                   finalResults, keyIdx, sessionId, i, attempts, calls, degradedInPrompt, gatewayCall,
                   promptLog>>

NextHistory ==
    \/ UpdateHistory
    \/ HandleDeleteHistoryItem
    \/ HandleClearHistory

SpecHistory == Init /\ [][NextHistory]_vars

\* ---------------------------------------------------- the gateway alone
\* generateImages called with any credential text, count, service and
\* answer of the provider
GenerateImages ==
    /\ \E apiKey \in ApiKeyTexts, numImages \in 1..MaxNumImages,
          service \in Services, answer \in ProviderAnswers :
          gatewayCall' = [made |-> TRUE, apiKey |-> apiKey, numImages |-> numImages,
                          service |-> service, answer |-> answer,
                          call |-> generateImages(apiKey, numImages, service, answer)]
    /\ UNCHANGED <<apiKeys, storedHistory, prompts, isLoading, statusMessage, results,
                   currentKeyIndex, stopRequest, pc, runKeys, promptsToProcess,
                   finalResults, keyIdx, sessionId, i, attempts, clock, calls,
                   degradedInPrompt, promptLog>>

NextGateway == GenerateImages

SpecGateway == Init /\ [][NextGateway]_vars

\* ------------------------------------------------------------------ claims
\* the last run has returned and Stop was never pressed during it
RunCompleted == pc = "idle" /\ clock > 0 /\ ~stopRequest

\* the last run has returned after Stop was pressed during it
RunCancelled == pc = "idle" /\ clock > 0 /\ stopRequest

\* this step starts a gateway call
CallStarted == pc' = "calling" /\ (pc # "calling" \/ calls' # calls)

\* this step is the segment of the running handleGenerate that ends in m
StepIs(m) == Apply(m, Context) /\ UNCHANGED <<prompts, stopRequest, clock, gatewayCall>>

IsRateLimited(keys, key) == HasKey(keys, key) /\ StatusOf(keys, key) = RateLimited

AllRateLimited(keys) == Len(keys) > 0 /\ \A j \in 1..Len(keys) : keys[j].status = RateLimited

AllActive(keys) == \A j \in 1..Len(keys) : keys[j].status = Active

PersistedAs(history, id, outcomes) ==
    \E j \in 1..Len(history) : history[j].id = id /\ history[j].results = outcomes

\* C1: a run that is never cancelled records exactly one outcome per input
\* prompt, the j-th outcome carrying the j-th prompt; while the run is under
\* way the outcomes recorded are those of the prompts before the current one.
C1_OneOutcomePerPrompt ==
    /\ RunCompleted =>
          /\ Len(results) = Len(SplitPrompts(prompts))
          /\ \A j \in 1..Len(results) : results[j].prompt = SplitPrompts(prompts)[j]
    /\ pc # "idle" =>
          /\ promptsToProcess = SplitPrompts(prompts)
          /\ Len(finalResults) = i
          /\ results = finalResults
          /\ \A j \in 1..Len(finalResults) : finalResults[j].prompt = promptsToProcess[j]

\* a completed run of at least two prompts, one failed and one with images
C1_Witness ==
    /\ RunCompleted
    /\ Len(results) >= 2
    /\ \E j \in 1..Len(results) : results[j].error # <<>>
    /\ \E j \in 1..Len(results) : Len(results[j].images) > 0

\* C2 (as claimed): a step of the running handleGenerate never turns a
\* Rate Limited credential of the pool back to Active.
C2_DegradedMonotonic ==
    [][(isLoading /\ (calls' # calls \/ pc' # pc)) =>
          \A key \in KeyIds : IsRateLimited(apiKeys, key) => IsRateLimited(apiKeys', key)]_vars

\* C3 (as claimed): no gateway call is started by a step that leaves every
\* credential of the pool Rate Limited.
C3_NoCallWhenAllDegraded ==
    [][CallStarted => ~AllRateLimited(apiKeys')]_vars

\* the prompt the run is working on
CurrentPrompt == promptsToProcess[i + 1]

\* this step records one more outcome
OutcomeRecorded == Len(results') = Len(results) + 1

\* the prompt of the call in flight gets no further attempt in this step
NoFurtherAttempt == pc' = "idle" \/ i' = i + 1

\* this step is the running handleGenerate receiving a prompt rejection
RejectionStep(error) ==
    pc = "calling" /\ isPromptError(error) /\ calls' = calls + 1
        /\ StepIs(OnFailure(Machine, Context, error))

\* C4 (as claimed): a prompt rejection leaves the pool unchanged, records
\* the outcome (no image, the rejection message) and ends the attempts for
\* the prompt.
C4_RejectionAlwaysRecorded ==
    [][\A error \in GatewayErrors : RejectionStep(error) =>
          /\ apiKeys' = apiKeys
          /\ NoFurtherAttempt
          /\ results' = Append(results, Outcome(CurrentPrompt, <<>>, getErrorMessage(error)))]_vars

\* C4 (amended): a prompt rejection leaves the pool unchanged and ends the
\* attempts for the prompt; its outcome (no image, the rejection message)
\* is recorded unless Stop was pressed while the call was in flight, and
\* then nothing is recorded.
C4_RejectionKeepsPool ==
    [][\A error \in GatewayErrors : RejectionStep(error) =>
          /\ apiKeys' = apiKeys
          /\ NoFurtherAttempt
          /\ ~stopRequest =>
                results' = Append(results, Outcome(CurrentPrompt, <<>>, getErrorMessage(error)))
          /\ stopRequest => results' = results]_vars

\* a rejection was recorded as the last outcome and the whole pool is Active
C4_Witness ==
    /\ Len(results) > 0
    /\ results[Len(results)] =
           Outcome(SplitPrompts(prompts)[Len(results)], <<>>, getErrorMessage(ErrBlocked))
    /\ Len(apiKeys) = MaxKeys
    /\ AllActive(apiKeys)

\* this step is the running handleGenerate receiving images
SuccessStep(n) ==
    pc = "calling" /\ calls' = calls + 1 /\ StepIs(OnSuccess(Machine, Context, Images(n)))

\* C5 (as claimed): when a prompt is recorded as Succeeded (images, no
\* error), no credential went from Active to Rate Limited while the prompt
\* was processed.
C5_NoDegradeDuringSucceededPrompt ==
    [][(OutcomeRecorded /\ Len(results'[Len(results')].images) > 0
                        /\ results'[Len(results')].error = <<>>) => ~degradedInPrompt]_vars

\* C5 (amended): the successful gateway call itself marks no credential:
\* the step in which a call returns images leaves the pool unchanged, and a
\* credential can have been marked during the prompt only by an earlier,
\* failed attempt for it.
C5_SuccessKeepsPool ==
    [][\A n \in 0..MaxImages : SuccessStep(n) =>
          /\ apiKeys' = apiKeys
          /\ degradedInPrompt => attempts > 0]_vars

\* a prompt succeeded at its second attempt: the first credential is marked
C5_Witness ==
    /\ Len(results) > 0
    /\ Len(results[Len(results)].images) > 0
    /\ results[Len(results)].error = <<>>
    /\ currentKeyIndex = 1
    /\ IsRateLimited(apiKeys, 1)
    /\ ~IsRateLimited(apiKeys, 2) /\ HasKey(apiKeys, 2)

\* this step is handleResetStatus
ResetStep ==
    /\ \E j \in 1..Len(apiKeys) : apiKeys[j].status = RateLimited
    /\ apiKeys' = handleResetStatus(apiKeys)
    /\ UNCHANGED <<pc, calls, stopRequest, statusMessage>>

\* C6 (as claimed): handleResetStatus leaves every credential of the pool
\* Active, however many were Rate Limited.
C6_ResetAllDegraded ==
    [][ResetStep => AllActive(apiKeys')]_vars

\* C7 (as claimed): after a step that records an outcome with an image or
\* an error, the stored history holds the session of the run with all the
\* outcomes recorded so far.
C7_FlushAfterEveryOutcome ==
    [][(OutcomeRecorded /\ NeedsFlush(results'[Len(results')])) =>
          PersistedAs(storedHistory', sessionId, results')]_vars

\* C8 (as claimed): a run cancelled after k >= 1 prompts were recorded, each
\* with an image or an error, ends with those k outcomes and the stored
\* session holds exactly them.
C8_CancelledRunPersisted ==
    (RunCancelled /\ Len(results) >= 1 /\ \A j \in 1..Len(results) : NeedsFlush(results[j]))
        => PersistedAs(storedHistory, sessionId, results)

\* C9 (as claimed): a run that ended by cancellation shows the status
\* 'Generation stopped by user.'
C9_StoppedStatus ==
    RunCancelled => statusMessage = MsgStopped

\* C10: once Stop is pressed during a run, no step of that run starts a
\* gateway call.
C10_NoCallAfterStop ==
    [][(isLoading /\ stopRequest) => ~CallStarted]_vars

\* Stop was pressed while a call or a cool-down was under way, it ended,
\* and the run returned with prompts left
C10_Witness ==
    /\ RunCancelled
    /\ calls >= 1
    /\ Len(results) < Len(SplitPrompts(prompts))

\* C11: from the press of Stop on, no step of the run changes the result
\* sequence or the stored history: what was recorded stays as it was when
\* the last prompt before the cancellation was recorded.
C11_CancelKeepsOutcomes ==
    [][(isLoading /\ (stopRequest \/ stopRequest')) =>
          /\ results' = results
          /\ storedHistory' = storedHistory]_vars

\* a run cancelled during its second prompt, after the call in flight
\* resolved: the first outcome is still shown and still stored
C11_Witness ==
    /\ RunCancelled
    /\ calls >= 2
    /\ Len(results) = 1
    /\ HasImages(results)
    /\ PersistedAs(storedHistory, sessionId, results)

\* an outcome PromptRejected (the message of a rejection) or Exhausted
IsBatchFailure(outcome) ==
    \/ outcome.error \in {ErrAllFailed, ErrAllRateLimited}
    \/ \E error \in GatewayErrors : isPromptError(error) /\ outcome.error = getErrorMessage(error)

\* C12: in a run that is not cancelled, a prompt recorded as rejected or
\* exhausted does not end the batch: while prompts are left the run is still
\* at work on one, and when the run has returned every later prompt has its
\* own outcome.
C12_FailureKeepsBatch ==
    /\ (pc = "idle" /\ isLoading = FALSE /\ clock > 0 /\ ~stopRequest) =>
          \A j \in 1..Len(results) : IsBatchFailure(results[j]) =>
              \A h \in (j + 1)..Len(SplitPrompts(prompts)) :
                  h <= Len(results) /\ results[h].prompt = SplitPrompts(prompts)[h]
    /\ (pc # "idle" /\ \E j \in 1..Len(results) : IsBatchFailure(results[j])) =>
          /\ isLoading
          /\ i = Len(results)
          /\ i < Len(promptsToProcess)

\* a completed run whose first prompt was exhausted and whose second one
\* was rejected, both recorded
C12_Witness ==
    /\ RunCompleted
    /\ Len(results) = 2
    /\ results[1].error = ErrAllFailed
    /\ results[2].error = getErrorMessage(ErrBlocked)

\* the run is where the segment ending in m leaves it
RunLeftAs(m) ==
    /\ results' = m.results
    /\ isLoading' = m.isLoading
    /\ pc' = m.pc
    /\ i' = m.i
    /\ attempts' = m.attempts

\* C13 (as claimed): whether or not a storage write fails while the run
\* handles the end of a gateway call, the run goes on as it does when the
\* writes succeed: same outcomes, same place in the batch, and the loading
\* flag cleared when the batch is over.
C13_WriteFailureKeepsRun ==
    [][(pc = "calling" /\ calls' = calls + 1) =>
          \/ \E n \in 0..MaxImages : RunLeftAs(OnSuccess(Machine, Context, Images(n)))
          \/ \E error \in GatewayErrors : RunLeftAs(OnFailure(Machine, Context, error))]_vars

\* C14: while the prompt text is blank or the pool has no Active
\* credential, a click on Generate starts nothing: no step from such a state
\* sets the loading flag, resolves or starts a gateway call, records an
\* outcome, creates a session or touches the result sequence, the stop
\* flag or the stored history, and the pool changes only by a reset.
C14_RefusedStartChangesNothing ==
    [][(~isLoading /\ (IsBlankText(prompts) \/ Len(ActiveKeys(apiKeys)) = 0)) =>
          /\ UNCHANGED <<isLoading, pc, calls, results, storedHistory, stopRequest,
                         sessionId, clock, currentKeyIndex>>
          /\ apiKeys' = apiKeys \/ ResetStep]_vars

\* after a run that left results and a stored session, every credential of
\* the pool is Rate Limited: Generate is refused with all of it in place
C14_Witness ==
    /\ ~isLoading
    /\ ~IsBlankText(prompts)
    /\ AllRateLimited(apiKeys)
    /\ Len(results) > 0
    /\ Len(storedHistory) > 0
    /\ calls < MaxCalls

\* the positions of history that hold a session with this id
PositionsOf(history, id) == {j \in 1..Len(history) : history[j].id = id}

\* C15: an upsert repeated with the same session id and the same outcomes,
\* at any later time, leaves the history as the first one left it: one
\* session with that id, at the same position, with the same outcomes and
\* the same date.
C15_UpsertIdempotent ==
    \A id \in SessionIds, newResults \in OutcomeLists :
        LET once == updateHistory(storedHistory, id, newResults, clock + 1)
            twice == updateHistory(once, id, newResults, clock + 2) IN
        /\ twice = once
        /\ Cardinality(PositionsOf(twice, id)) = 1
        /\ PositionsOf(twice, id) = PositionsOf(once, id)

\* three upserts have left two sessions, dated by the first two
C15_Witness ==
    /\ Len(storedHistory) = 2
    /\ storedHistory[2].date = 1
    /\ storedHistory[1].date = 2
    /\ clock = 3
    /\ isLoading = FALSE /\ calls = 0

\* C16: an upsert of a session id the history does not hold puts the new
\* session at the head, before all the others in their order; an upsert of
\* an id it holds replaces the outcomes of that session only, every session
\* keeping its position and date; and no two sessions of the history have
\* the same id.
C16_UpsertKeepsOrder ==
    /\ \A j, h \in 1..Len(storedHistory) :
          storedHistory[j].id = storedHistory[h].id => j = h
    /\ \A id \in SessionIds, newResults \in OutcomeLists :
          LET new == updateHistory(storedHistory, id, newResults, clock + 1) IN
          IF PositionsOf(storedHistory, id) = {}
          THEN /\ Len(new) = Len(storedHistory) + 1
               /\ new[1].id = id /\ new[1].results = newResults
               /\ \A j \in 1..Len(storedHistory) : new[j + 1] = storedHistory[j]
          ELSE /\ Len(new) = Len(storedHistory)
               /\ \A j \in 1..Len(storedHistory) :
                     /\ new[j].id = storedHistory[j].id
                     /\ new[j].date = storedHistory[j].date
                     /\ new[j].results = IF storedHistory[j].id = id
                                         THEN newResults
                                         ELSE storedHistory[j].results

\* three sessions, each inserted at the head: the newest first
C16_Witness ==
    /\ Len(storedHistory) = 3
    /\ storedHistory[1].date = 3
    /\ storedHistory[2].date = 2
    /\ storedHistory[3].date = 1
    /\ storedHistory[1].id < storedHistory[3].id
    /\ isLoading = FALSE /\ calls = 0

\* the run that was given this session id has returned
RunEnded(id) == id < sessionId \/ (id = sessionId /\ pc = "idle")

\* C17: no step changes the outcomes stored under the session id of a run
\* that has returned (completed or cancelled): after the step the session
\* is stored with the same outcomes and date, or (deleted, cleared) it is
\* not stored at all; a new run stores under an id of its own.
C17_EndedSessionFrozen ==
    [][/\ \A j \in 1..Len(storedHistory) :
             RunEnded(storedHistory[j].id) =>
                 \/ PositionsOf(storedHistory', storedHistory[j].id) = {}
                 \/ \E h \in 1..Len(storedHistory') : storedHistory'[h] = storedHistory[j]
       /\ (~isLoading /\ isLoading') =>
             /\ storedHistory' = storedHistory
             /\ PositionsOf(storedHistory, sessionId') = {}
             /\ clock > 0 => sessionId' # sessionId]_vars

\* a second run has returned with its own stored session, above the one of
\* the first run
C17_Witness ==
    /\ pc = "idle"
    /\ sessionId = 2
    /\ Len(storedHistory) = 2
    /\ storedHistory[1].id = 2
    /\ storedHistory[2].id = 1
    /\ Len(results) > 0

IsPrefix(s, t) == Len(s) <= Len(t) /\ \A j \in 1..Len(s) : s[j] = t[j]

\* C18: in every state the session stored under the id of the last run
\* started holds a prefix of the result sequence, the j-th result is the
\* outcome of the j-th input prompt, and while the run is at work on a
\* prompt neither holds an outcome of it.
C18_OutcomesInInputOrder ==
    /\ \A j \in 1..Len(storedHistory) :
          (clock > 0 /\ storedHistory[j].id = sessionId) =>
              IsPrefix(storedHistory[j].results, results)
    /\ Len(results) <= Len(SplitPrompts(prompts))
    /\ \A j \in 1..Len(results) : results[j].prompt = SplitPrompts(prompts)[j]
    /\ pc # "idle" =>
          /\ Len(results) = i
          /\ \A j \in 1..Len(results) : results[j].prompt # CurrentPrompt
          /\ \A j \in 1..Len(storedHistory) : \A h \in 1..Len(storedHistory[j].results) :
                storedHistory[j].id = sessionId =>
                    storedHistory[j].results[h].prompt # CurrentPrompt

\* the first prompt is recorded and stored; the second one has had a failed
\* attempt and is being tried again
C18_Witness ==
    /\ pc = "calling"
    /\ i = 1
    /\ attempts = 1
    /\ Len(results) = 1
    /\ PersistedAs(storedHistory, sessionId, results)

\* history without its element at position p
WithoutPosition(history, p) ==
    [j \in 1..(Len(history) - 1) |-> IF j < p THEN history[j] ELSE history[j + 1]]

\* C19: deleteHistoryItem takes out the session with the id given and
\* nothing else, the other sessions staying as they are and in their order;
\* with an id the history does not hold it changes nothing; clearHistory
\* leaves no session.
C19_DeleteRemovesExactlyOne ==
    /\ \A id \in SessionIds :
          LET new == deleteHistoryItem(storedHistory, id) IN
          IF PositionsOf(storedHistory, id) = {}
          THEN new = storedHistory
          ELSE \E p \in PositionsOf(storedHistory, id) :
                  new = WithoutPosition(storedHistory, p)
    /\ Len(clearHistory(storedHistory)) = 0

\* two upserts were made and the session of the first one is gone
C19_Witness ==
    /\ clock = 2
    /\ Len(storedHistory) = 1
    /\ storedHistory[1].date = 2
    /\ isLoading = FALSE /\ calls = 0

\* C20: no two credentials of the pool have the same secret value, whatever
\* the user adds or removes and whatever a run or a reset marks.
C20_UniqueCredentials ==
    \A j, h \in 1..Len(apiKeys) : apiKeys[j].key = apiKeys[h].key => j = h

\* the pool after a credential was removed and added again and a run,
\* started after that, has marked it
C20_Witness ==
    /\ Len(apiKeys) = 2
    /\ apiKeys[1].key = 2
    /\ apiKeys[2].key = 1
    /\ apiKeys[2].status = RateLimited
    /\ isLoading

\* this step is the running handleGenerate receiving the failure error
FailureStep(error) ==
    pc = "calling" /\ calls' = calls + 1 /\ StepIs(OnFailure(Machine, Context, error))

\* the credential of the call in flight is Rate Limited in the pool after
\* the step
UsedKeyMarked == IsRateLimited(apiKeys', CurrentKey(runKeys, keyIdx))

\* C21: a failure is handled in one bucket, the prompt rejection first: one
\* that isPromptError accepts (whether or not isRateLimitError accepts it
\* too) leaves the pool alone, starts no cool-down and ends the attempts for
\* the prompt; one that only isRateLimitError accepts marks the credential
\* and, unless Stop was pressed, starts the cool-down; one that neither
\* accepts marks the credential and goes on without a cool-down.
C21_FailureBuckets ==
    [][\A error \in GatewayErrors : FailureStep(error) =>
          /\ isPromptError(error) =>
                /\ apiKeys' = apiKeys
                /\ pc' # "cooldown"
                /\ NoFurtherAttempt
          /\ (~isPromptError(error) /\ isRateLimitError(error)) =>
                /\ UsedKeyMarked
                /\ ~stopRequest => pc' = "cooldown"
          /\ (~isPromptError(error) /\ ~isRateLimitError(error)) =>
                /\ UsedKeyMarked
                /\ pc' # "cooldown"]_vars

\* a completed run: the first prompt was rejected (by a failure that also
\* carries a rate-limit code, or not) with the pool untouched, the second
\* one was exhausted by a failure of the only credential
C21_Witness ==
    /\ RunCompleted
    /\ Len(results) = 2
    /\ results[1].error = getErrorMessage(ErrBlockedQuota)
    /\ results[2].error = ErrAllFailed
    /\ statusMessage = MsgAllProcessed
    /\ Len(apiKeys) = 1
    /\ calls = 2

\* C22: a rate-limit failure marks the credential of the failed call, and
\* the call that follows the cool-down for the same prompt goes to another
\* credential.
C22_RetryWithDifferentKey ==
    [][/\ \A error \in GatewayErrors :
             (FailureStep(error) /\ ~isPromptError(error) /\ isRateLimitError(error)) =>
                 /\ UsedKeyMarked
                 /\ (pc' = "calling" /\ i' = i) =>
                        CurrentKey(runKeys, keyIdx') # CurrentKey(runKeys, keyIdx)
       /\ (pc = "cooldown" /\ pc' = "calling" /\ i' = i) =>
             CurrentKey(runKeys, keyIdx') # CurrentKey(runKeys, keyIdx)]_vars

\* the first call of the run failed on credential 1, which is marked, and
\* the prompt is being tried again with credential 2
C22_Witness ==
    /\ pc = "calling"
    /\ i = 0
    /\ attempts = 1
    /\ calls = 1
    /\ IsRateLimited(apiKeys, 1)
    /\ CurrentKey(runKeys, keyIdx) = 2

\* C23: the run enters the cool-down wait in exactly the steps that handle
\* a failure of the rate-limit bucket while the stop flag is not set; a
\* success, a prompt rejection, an Other failure and a rate limit handled
\* with the flag set start none.
C23_CooldownOnlyAfterRateLimit ==
    [][/\ (pc # "cooldown" /\ pc' = "cooldown") <=>
             \E error \in GatewayErrors :
                 /\ FailureStep(error)
                 /\ ~isPromptError(error) /\ isRateLimitError(error)
                 /\ ~stopRequest
       /\ \A n \in 0..MaxImages : SuccessStep(n) => pc' # "cooldown"]_vars

\* Stop was pressed during a call that then failed with a rate limit: the
\* run has returned at once, the cool-down message still shown
C23_Witness ==
    /\ RunCancelled
    /\ statusMessage = MsgCooling
    /\ \E key \in KeyIds : IsRateLimited(apiKeys, key)

\* this step starts the first gateway call for a prompt
FirstCallStarted == CallStarted /\ attempts' = 0

\* C24 (as claimed): a prompt gets no more gateway calls than the pool had
\* Active credentials when the prompt started (so a first call needs one),
\* and a prompt whose calls all fail with a rate-limit or Other failure, no
\* attempt being left, is recorded as Exhausted.
C24_CallsBoundedByActive ==
    [][/\ FirstCallStarted => Len(ActiveKeys(apiKeys')) >= 1
       /\ \A error \in GatewayErrors :
             (FailureStep(error) /\ ~isPromptError(error) /\ ~stopRequest
                  /\ pc' # "cooldown" /\ (pc' = "idle" \/ i' = i + 1)) =>
                 /\ Len(results') = Len(results) + 1
                 /\ results'[Len(results')].error \in {ErrAllFailed, ErrAllRateLimited}
                 /\ results'[Len(results')].images = <<>>]_vars

\* this step starts the first call of the next prompt with the credential
\* at position idx, taken modulo the number of Active credentials of the
\* pool, among the Active credentials of the pool
NextPromptStartsAt(idx) ==
    (pc' = "calling" /\ i' = i + 1 /\ Len(ActiveKeys(apiKeys')) > 0) =>
        CurrentKey(runKeys, keyIdx') = CurrentKey(apiKeys', idx % Len(ActiveKeys(apiKeys')))

\* C25 (as claimed): the next prompt starts with the Active credential of
\* the pool at the index the prompt before left, modulo their number: the
\* index of the credential that succeeded, or of the one rejected, or one
\* past the credential that failed last.
C25_RotatingStartIndex ==
    [][/\ \A n \in 0..MaxImages : SuccessStep(n) => NextPromptStartsAt(keyIdx)
       /\ \A error \in GatewayErrors :
             FailureStep(error) =>
                 NextPromptStartsAt(IF isPromptError(error) THEN keyIdx ELSE keyIdx + 1)
       /\ pc = "cooldown" => NextPromptStartsAt(keyIdx + 1)]_vars

C27_MarkChangesOnlyTarget ==
    [][\A error \in GatewayErrors :
          (FailureStep(error) /\ ~isPromptError(error)) =>
              LET key == CurrentKey(runKeys, keyIdx) IN
              /\ apiKeys' = updateApiKeyStatus(apiKeys, key, RateLimited)
              /\ updateApiKeyStatus(apiKeys', key, RateLimited) = apiKeys']_vars

\* C28: a call of generateImages for the OpenAI provider that returns,
\* returns exactly one image whatever the count asked for (1 to 4) and
\* however many images the answer lists; a call with an empty or blank
\* credential throws and no provider is sent a request.
C28_GatewayNormalizes ==
    gatewayCall.made =>
        /\ (gatewayCall.service = OpenAI /\ gatewayCall.call.result.outcome = "returned") =>
              Len(gatewayCall.call.result.images) = 1
        /\ gatewayCall.apiKey \in {"", " "} =>
              /\ gatewayCall.call.result.outcome = "thrown"
              /\ ~gatewayCall.call.contacted

\* four images were asked of the OpenAI provider, the answer listed
\* several, and the call returned
C28_Witness ==
    /\ gatewayCall.made
    /\ gatewayCall.service = OpenAI
    /\ gatewayCall.numImages = MaxNumImages
    /\ gatewayCall.answer.count > 1
    /\ gatewayCall.call.result.outcome = "returned"

\* C29 (as claimed): a step in which the run marks a credential leaves the
\* membership of the pool as the user made it: every credential in the
\* pool before the step (one added during the run too) is in it after, and
\* none that was not (one removed during the run) comes back.
C29_MarkKeepsUserEdits ==
    [][\A error \in GatewayErrors :
          (FailureStep(error) /\ ~isPromptError(error)) =>
              \A key \in KeyIds : HasKey(apiKeys', key) <=> HasKey(apiKeys, key)]_vars

C31_CallAfterStopDiscarded ==
    [][(pc = "calling" /\ stopRequest /\ calls' = calls + 1) =>
          /\ results' = results
          /\ storedHistory' = storedHistory
          /\ pc' = "idle" /\ ~isLoading'
          /\ \A error \in GatewayErrors :
                (FailureStep(error) /\ ~isPromptError(error)) => UsedKeyMarked]_vars

\* Stop was pressed during the first call of a run; the call failed with an
\* Other failure: its credential is marked and nothing is recorded
C31_Witness ==
    /\ RunCancelled
    /\ calls = 1
    /\ statusMessage = MsgFailedNext
    /\ IsRateLimited(apiKeys, 1)
    /\ results = <<>>
    /\ storedHistory = <<>>

\* C32: with every gateway call resolving and every cool-down ending, a
\* run that has started returns (loading flag cleared); and while a call of
\* it is in flight the calls of the run, that one counted, are no more
\* than the prompts times the credentials Active when the run started.
C32_RunTerminates ==
    /\ isLoading ~> (~isLoading /\ pc = "idle")
    /\ [](pc = "calling" =>
             calls + 1 <= Len(promptsToProcess) * Len(ActiveKeys(runKeys)))

\* a run of two prompts has completed after a failed call with each of two
\* credentials for each prompt
C32_Witness ==
    /\ RunCompleted
    /\ Len(results) = 2
    /\ calls = 4
    /\ results[1].error = ErrAllFailed
    /\ results[2].error = ErrAllFailed

\* a stored pool of MaxKeys Active credentials and a Rate Limited one
SparePool ==
    [j \in 1..(MaxKeys + 1) |->
        [key |-> j, status |-> IF j <= MaxKeys THEN Active ELSE RateLimited]]

\* the generator page opened on that pool
InitSparePool == InitWith({SparePool})

SpecSparePool == InitSparePool /\ [][Next]_vars

\* how often the credential key was called for the prompt of log
TimesAttempted(log, key) ==
    Cardinality({n \in 1..Len(log.attempted) : log.attempted[n] = key})

\* this step records the current prompt as Exhausted
ExhaustedRecorded ==
    /\ OutcomeRecorded
    /\ results'[Len(results')].error \in {ErrAllFailed, ErrAllRateLimited}

\* C33 (as claimed): within one prompt no credential is called twice, and
\* a step records a prompt as Exhausted only when every credential that was
\* Active in the pool when the prompt started has been called for it exactly
\* once, or when the pool has no Active credential left.
C33_ExhaustedAfterAllActive ==
    [][/\ \A n \in 1..Len(promptLog'.attempted) :
             TimesAttempted(promptLog', promptLog'.attempted[n]) = 1
       /\ ExhaustedRecorded =>
             \/ \A key \in promptLog.activeAtStart : TimesAttempted(promptLog, key) = 1
             \/ ActiveKeys(apiKeys') = <<>>]_vars

\* C34: a step that starts a run clears the stop flag and leaves the run
\* in its first gateway call, whatever the flag was (set by a cancelled
\* run or not); and a run that returns with the flag clear, so never
\* cancelled, has an outcome for each of its prompts and leaves the status
\* 'All prompts processed.'.
C34_CancellationNotCarriedOver ==
    [][/\ clock' = clock + 1 =>
             /\ ~stopRequest'
             /\ isLoading' /\ pc' = "calling" /\ i' = 0
       /\ (isLoading /\ ~isLoading' /\ ~stopRequest) =>
             /\ statusMessage' = MsgAllProcessed
             /\ Len(results') = Len(promptsToProcess)]_vars

\* the second run of a two-prompt text has completed with three gateway
\* calls made in all: the first run made one call, so it was cancelled
C34_Witness ==
    /\ RunCompleted
    /\ clock = 2
    /\ calls = 3
    /\ Len(results) = 2
    /\ statusMessage = MsgAllProcessed

\* the outcomes of every stored session, and those of the view
RecordedOutcomes ==
    {results[n] : n \in 1..Len(results)} \cup
    UNION {{storedHistory[h].results[n] : n \in 1..Len(storedHistory[h].results)} :
              h \in 1..Len(storedHistory)}

\* C35: an outcome with an error has no images, in the view and in every
\* stored session; and the outcome a step records has no error and exactly
\* the images of the call when the step is a gateway call returning, and
\* has an error when it is not.
C35_OutcomesWellFormed ==
    /\ [](\A outcome \in RecordedOutcomes : outcome.error # <<>> => outcome.images = <<>>)
    /\ [][OutcomeRecorded =>
             LET outcome == results'[Len(results')] IN
             /\ outcome.prompt = CurrentPrompt
             /\ \A n \in 0..MaxImages :
                   SuccessStep(n) => outcome.images = Images(n) /\ outcome.error = <<>>
             /\ (~\E n \in 0..MaxImages : SuccessStep(n)) => outcome.error # <<>>]_vars

\* a completed run recorded a success with the image of its call and no
\* error, then a failure with an error and no image; the session is stored
\* with both outcomes
C35_Witness ==
    /\ RunCompleted
    /\ Len(results) = 2
    /\ results[1].error = <<>> /\ results[1].images = Images(1)
    /\ results[2].error # <<>> /\ results[2].images = <<>>
    /\ Len(storedHistory) = 1
    /\ storedHistory[1].results = results

\* an outcome of a call that returned no image
IsEmptySuccess(outcome) == outcome.error = <<>> /\ outcome.images = <<>>

\* the outcomes stored under a session id, none when it is not stored
StoredUnder(history, id) ==
    IF PositionsOf(history, id) = {} THEN <<>> ELSE history[findIndex(history, id)].results

\* C36: the step in which a gateway call returns no image and its prompt is
\* recorded appends the outcome to the results of the view and leaves the
\* stored history alone; and a step after which the stored session of the
\* run holds such an outcome, not held before, is a step of the same run
\* that records a later prompt whose outcome is flushed.
C36_EmptySuccessFlushedLater ==
    [][/\ (SuccessStep(0) /\ OutcomeRecorded) =>
             /\ results' = Append(results, Outcome(CurrentPrompt, <<>>, <<>>))
             /\ storedHistory' = storedHistory
       /\ \A k \in 1..Len(results') :
             (/\ IsEmptySuccess(results'[k])
              /\ Len(StoredUnder(storedHistory, sessionId')) < k
              /\ Len(StoredUnder(storedHistory', sessionId')) >= k) =>
                 /\ isLoading /\ sessionId' = sessionId
                 /\ OutcomeRecorded
                 /\ Len(results') > k
                 /\ NeedsFlush(results'[Len(results')])
                 /\ StoredUnder(storedHistory', sessionId')[k] = results'[k]]_vars

\* the first call of a run returned no image, the second an image: the
\* stored session holds both outcomes
C36_Witness ==
    /\ RunCompleted
    /\ Len(results) = 2
    /\ IsEmptySuccess(results[1])
    /\ results[2].images = Images(1)
    /\ StoredUnder(storedHistory, sessionId) = results

\* ------------------------------------ the single-file orchestrator, index.tsx
\* A value thrown by the gateway call of index.tsx: whether it is an
\* instance of Error, and its message (a sequence of phrases, <<>> for an
\* empty or absent message)
Index_ErrQuota == [instanceOfError |-> TRUE, message |-> <<"quota">>]
Index_ErrInvalidKey == [instanceOfError |-> TRUE, message |-> <<"invalid", "key">>]
Index_ErrNoMessage == [instanceOfError |-> TRUE, message |-> <<>>]
Index_ErrObject == [instanceOfError |-> FALSE, message |-> <<"quota">>]

Index_Errors == {Index_ErrQuota, Index_ErrInvalidKey, Index_ErrNoMessage, Index_ErrObject}

Index_ErrUnknown == <<"An unknown error occurred.">>
Index_MsgSwitching == "Key rate limited. Switching..."

\* index.tsx, isRateLimitError
Index_isRateLimitError(error) ==
    /\ error.instanceOfError
    /\ Includes(error.message, "quota") \/ Includes(error.message, "rate limit")

\* error.message || 'An unknown error occurred.'
Index_errorMessage(error) ==
    IF error.message # <<>> THEN error.message ELSE Index_ErrUnknown

\* index.tsx, addToHistory: the history it saves
Index_addToHistory(history, newResults, now) ==
    <<[id |-> now, date |-> now, results |-> newResults]>> \o history

\* index.tsx, App.handleGenerationComplete
Index_handleGenerationComplete(history, newResults, now) ==
    IF HasImages(newResults) THEN Index_addToHistory(history, newResults, now) ELSE history

\* lines 417-419, and the return
Index_Finish(m, c) ==
    [m EXCEPT !.storedHistory =
                  Index_handleGenerationComplete(m.storedHistory, m.finalResults, c.now),
              !.isLoading = FALSE,
              !.statusMessage = MsgAllProcessed,
              !.pc = "idle",
              !.i = 0, !.attempts = 0, !.keyIdx = 0, !.finalResults = <<>>]

\* lines 409-411: the outcome of a prompt that left the retry loop
Index_Resolve(success, promptResult, prompt) ==
    IF ~success THEN <<Outcome(prompt, <<>>, ErrAllFailed)>> ELSE promptResult

RECURSIVE Index_ForLoop(_, _)

\* lines 412-415, then the next iteration of the for loop
Index_Record(m, c, promptResult) ==
    IF promptResult # <<>>
    THEN Index_ForLoop([m EXCEPT !.finalResults = Append(m.finalResults, promptResult[1]),
                                 !.results = Append(m.results, promptResult[1]),
                                 !.i = m.i + 1], c)
    ELSE Index_ForLoop([m EXCEPT !.i = m.i + 1], c)

\* lines 409-415
Index_AfterWhile(m, c) ==
    Index_Record(m, c, Index_Resolve(m.success, m.promptResult, c.prompts[m.i + 1]))

\* lines 387-389: the head of the retry loop, up to the gateway call
Index_WhileLoop(m, c) ==
    IF ~m.success /\ m.attempts < Len(ActiveKeys(c.keys))
    THEN [m EXCEPT !.statusMessage = MsgTrying, !.pc = "calling"]
    ELSE Index_AfterWhile(m, c)

\* lines 381-386: the head of the for loop
Index_ForLoop(m, c) ==
    IF m.i < Len(c.prompts)
    THEN Index_WhileLoop([m EXCEPT !.promptResult = <<>>,
                                   !.success = FALSE,
                                   !.attempts = 0,
                                   !.statusMessage = MsgProcessing], c)
    ELSE Index_Finish(m, c)

\* lines 391-394: the gateway call returned images
Index_OnSuccess(m, c, images) ==
    Index_WhileLoop([m EXCEPT !.promptResult = <<Outcome(c.prompts[m.i + 1], images, <<>>)>>,
                              !.success = TRUE,
                              !.currentKeyIndex = m.keyIdx], c)

\* lines 395-407: the gateway call threw error
Index_OnFailure(m, c, error) ==
    IF Index_isRateLimitError(error)
    THEN Index_WhileLoop(
             [m EXCEPT !.apiKeys = updateApiKeyStatus(c.keys, CurrentKey(c.keys, m.keyIdx),
                                                      RateLimited),
                       !.statusMessage = Index_MsgSwitching,
                       !.keyIdx = (m.keyIdx + 1) % Len(ActiveKeys(c.keys)),
                       !.attempts = m.attempts + 1], c)
    ELSE Index_AfterWhile(
             [m EXCEPT !.promptResult =
                           <<Outcome(c.prompts[m.i + 1], <<>>, Index_errorMessage(error))>>], c)

\* index.tsx handleGenerate, lines 366-390: from the click to the first call
Index_HandleGenerate ==
    /\ ~isLoading
    /\ calls < MaxCalls
    /\ ~IsBlankText(prompts) /\ Len(ActiveKeys(apiKeys)) > 0
    /\ LET c == [stop |-> stopRequest, keys |-> apiKeys, prompts |-> SplitPrompts(prompts),
                 sid |-> sessionId, now |-> clock + 1]
           m == [Machine EXCEPT !.isLoading = TRUE,
                                !.results = <<>>,
                                !.statusMessage = MsgStarting,
                                !.finalResults = <<>>,
                                !.keyIdx = currentKeyIndex % Len(ActiveKeys(apiKeys)),
                                !.i = 0]
       IN /\ Apply(Index_ForLoop(m, c), c)
          /\ clock' = c.now
    /\ UNCHANGED <<prompts, stopRequest, calls, gatewayCall>>

\* index.tsx handleGenerate, lines 367-375: the alert and the early return
Index_HandleGenerateRefused ==
    /\ ~isLoading
    /\ IsBlankText(prompts) \/ Len(ActiveKeys(apiKeys)) = 0
    /\ UNCHANGED vars

\* the gateway call in flight returns images
Index_CallReturns ==
    /\ pc = "calling"
    /\ calls < MaxCalls
    /\ calls' = calls + 1
    /\ \E n \in 0..MaxImages : Apply(Index_OnSuccess(Machine, Context, Images(n)), Context)
    /\ UNCHANGED <<prompts, stopRequest, clock, gatewayCall>>

\* the gateway call in flight throws
Index_CallThrows ==
    /\ pc = "calling"
    /\ calls < MaxCalls
    /\ calls' = calls + 1
    /\ \E error \in Index_Errors : Apply(Index_OnFailure(Machine, Context, error), Context)
    /\ UNCHANGED <<prompts, stopRequest, clock, gatewayCall>>

Index_Next ==
    \/ Index_HandleGenerate
    \/ Index_HandleGenerateRefused
    \/ Index_CallReturns
    \/ Index_CallThrows

SpecIndex == Init /\ [][Index_Next]_vars

\* this step is the running handleGenerate of index.tsx receiving error
Index_FailureStep(error) ==
    pc = "calling" /\ calls' = calls + 1 /\ StepIs(Index_OnFailure(Machine, Context, error))

\* C37 (as claimed): in index.tsx, the step in which a gateway call fails
\* with a failure that is not a rate limit records the prompt's outcome
\* with the message of that failure as its error, and the prompt gets no
\* further attempt.
C37_OtherFailureKeepsMessage ==
    [][\A error \in Index_Errors :
          (Index_FailureStep(error) /\ ~Index_isRateLimitError(error)) =>
              /\ Len(results') = Len(results) + 1
              /\ results'[Len(results')].prompt = CurrentPrompt
              /\ results'[Len(results')].error = Index_errorMessage(error)
              /\ NoFurtherAttempt]_vars

====
